---- MODULE Spec2Model ----
(***************************************************************************)
(* A model of src/app.py: the Streamlit session of the AI career coach.    *)
(*                                                                         *)
(*  - extract_skills_with_gemini: the cached, retrying extraction client   *)
(*    (one action per loop iteration of lines 108-133, by kind of remote   *)
(*    outcome, plus the code after the loop and the cache wrapper);        *)
(*  - generate_project_ideas: the single-shot idea generator;              *)
(*  - the script itself: the form handler, the "Extract Skills" round,     *)
(*    the aggregation of lines 250-262 and the "Generate Project Ideas"    *)
(*    handler, each script run ending with the rendering of the page.      *)
(*                                                                         *)
(* Three specifications share the state and the actions:                   *)
(*    Spec     the session, extract called with its default arguments;     *)
(*    SpecFn   the two functions called directly, arguments drawn from     *)
(*             bounded sets;                                               *)
(*    SpecAgg  the aggregation over an arbitrary bounded results column.   *)
(***************************************************************************)
EXTENDS Integers, Sequences, FiniteSets, TLC

(* ------------------------------ bounds -------------------------------- *)
MaxJobs == 2

MaxRetriesArg == 3

MaxInitialDelay == 2

MaxPostings == 2

MaxItems == 4

(* ------------------------- program constants -------------------------- *)
DefaultMaxRetries == 5

DefaultInitialDelay == 1

TopLimit == 3

(* ------------------------------ values -------------------------------- *)
\* A JSON / Python value as the script sees it.  kind "array" is a list,
\* "object" a non-empty dict, "nan" the NaN pandas puts in a missing cell,
\* "none" Python's None (also: no such column), "miss" no cache entry.
JsonArray(items) == [kind |-> "array", items |-> items]

EmptyList == JsonArray(<<>>)

JsonObject == [kind |-> "object", items |-> <<>>]

NaN == [kind |-> "nan", items |-> <<>>]

None == [kind |-> "none", items |-> <<>>]

Miss == [kind |-> "miss", items |-> <<>>]

\* One element of a parsed skills payload.  shape records which keys the
\* element really has: "ok" has both skill and confidence_score.
Item(s, c) == [skill |-> s, confidence_score |-> c, shape |-> "ok"]

ItemNoScore(s) == [skill |-> s, confidence_score |-> 0, shape |-> "no_score"]

Idea(t) == [title |-> t, description |-> "text"]

Descriptions == {"", "d1", "d2"}

Titles == {"", "Data Scientist"}

Companies == {"", "Acme"}

\* The text payloads json.loads (line 116) can yield in the session.
SkillPayloads ==
    { JsonArray(<<Item("Python", 90), Item("SQL", 80)>>),
      JsonArray(<<Item("Python", 70)>>),
      EmptyList,
      JsonArray(<<Item("Python", 150)>>),
      JsonArray(<<ItemNoScore("Python")>>),
      JsonObject }

IdeaPayloads ==
    { JsonArray(<<Idea("Churn model")>>),
      JsonArray(<<Idea("Dashboard"), Idea("Churn model")>>),
      EmptyList,
      JsonObject }

\* What one requests.post and the parsing that follows can meet.
FailureStatuses ==
    { "ConnectionError", "Timeout", "OtherRequestException", "Non2xx",
      "BodyNotJSON", "TextNotJSON" }

EmptyStatuses == { "NoCandidatesKey", "EmptyCandidates" }

BrokenStatuses == { "CandidateWithoutTextPath" }

Response(s, p) == [status |-> s, payload |-> p]

SkillResponses ==
    { Response(s, None) : s \in FailureStatuses \cup EmptyStatuses \cup BrokenStatuses }
      \cup { Response("Parsed", p) : p \in SkillPayloads }

IdeaResponses ==
    { Response(s, None) : s \in FailureStatuses \cup EmptyStatuses \cup BrokenStatuses }
      \cup { Response("Parsed", p) : p \in IdeaPayloads }

\* The exception lines 110-116 (172-177) raise on a response, "none" if none.
Exception(r) ==
    CASE r.status = "ConnectionError" -> "ConnectionError"
      [] r.status = "Timeout" -> "Timeout"
      [] r.status = "OtherRequestException" -> "RequestException"
      [] r.status = "Non2xx" -> "HTTPError"
      [] r.status = "BodyNotJSON" -> "JSONDecodeError"
      [] r.status = "TextNotJSON" -> "JSONDecodeError"
      [] r.status = "CandidateWithoutTextPath" -> "KeyError"
      [] OTHER -> "none"

\* The value the try block returns when nothing is raised.
Returned(r) == IF r.status \in EmptyStatuses THEN EmptyList ELSE r.payload

(* ------------------------------- state -------------------------------- *)
VARIABLES
    job_data,               \* st.session_state.job_data: the rows, in order
    hasColumn,              \* 'Extracted_Skills_With_Scores' in job_data
    project_ideas,          \* st.session_state.project_ideas
    cache,                  \* st.cache_data of extract_skills_with_gemini
    pc,                     \* "idle" | "round" (Spec), "direct" (SpecFn), "agg" (SpecAgg)
    extracted_skills_list,  \* the round's local list
    fpc,                    \* extract call: "none" | "loop" | "returned" | "raised"
    description,            \* the running call's argument
    max_retries,
    initial_delay,
    i,                      \* loop index of lines 108-133
    delay,
    log,                    \* what the running call did: post, *_error, sleep, final_error
    outcome,                \* the status of the last response the call met
    ret,                    \* the call's return value
    returned,               \* per description, what the last completed call returned
    genCall,                \* the last generate_project_ideas call
    render,                 \* lines 231-262 of the last script run
    avg_scores,
    top_skills,
    event,                  \* the last user event
    prev_ideas,             \* project_ideas when the last button was pressed
    gave_up                 \* the descriptions for which a call used up its retries

sessionVars == <<job_data, hasColumn, project_ideas>>

callVars == <<fpc, description, i, delay, log, outcome, ret>>

argVars == <<max_retries, initial_delay>>

pageVars == <<render, avg_scores, top_skills>>

vars == <<job_data, hasColumn, project_ideas, cache, pc, extracted_skills_list,
          fpc, description, max_retries, initial_delay, i, delay, log, outcome,
          ret, returned, genCall, render, avg_scores, top_skills, event,
          prev_ideas, gave_up>>

(* ------------------------- the call's log ----------------------------- *)
Ev(e, d) == [ev |-> e, d |-> d]

Count(l, e) == Cardinality({k \in DOMAIN l : l[k].ev = e})

Posts(l) == Count(l, "post")

\* The errors reported while an attempt was handled, and all errors reported.
AttemptErrors(l) == Count(l, "transport_error") + Count(l, "parse_error")

Errors(l) == AttemptErrors(l) + Count(l, "final_error")

\* The waits of a log, in order.
RECURSIVE Waits(_)
Waits(l) ==
    IF l = <<>> THEN <<>>
    ELSE IF Head(l).ev = "sleep" THEN <<Head(l).d>> \o Waits(Tail(l))
    ELSE Waits(Tail(l))

(* -------------------- extract_skills_with_gemini ---------------------- *)
\* The except clauses of lines 121-130.
CaughtByExtract(exc) ==
    exc \in {"HTTPError", "ConnectionError", "Timeout", "RequestException",
             "JSONDecodeError"}

\* A loop that runs once too often.
InRangeOffByOne(k, n) == k <= n

\* Line 108: range(max_retries) still has an index for the loop.
InRange(k, n) == k < n

\* A delay that grows by a constant instead of doubling.
NextDelayLinear(d) == d + 1

\* Line 133.
NextDelay(d) == d * 2

\* A function without the decorator: nothing is ever found.
CacheLookupNothing(c, d) == Miss

\* What the cache decorator of line 36 answers for a description.
CacheLookup(c, d) == c[d]

\* A cache that keeps no empty result.
CacheStoreSkipEmpty(c, d, v) == IF v = EmptyList THEN c ELSE [c EXCEPT ![d] = v]

\* The decorator stores a value the function returned.
CacheStore(c, d, v) == [c EXCEPT ![d] = v]

\* The error an except clause reports (lines 122-130), by the kind of failure.
ErrorEvent(status) ==
    IF status \in {"BodyNotJSON", "TextNotJSON"} THEN "parse_error" ELSE "transport_error"

\* A loop that does not wait once its last attempt has failed.
FailureTailNoLastSleep(status, d) ==
    IF i + 1 < max_retries
      THEN <<Ev(ErrorEvent(status), 0), Ev("sleep", d)>>
      ELSE <<Ev(ErrorEvent(status), 0)>>

\* An except clause that waits before it reports.
FailureTailSleepFirst(status, d) == <<Ev("sleep", d), Ev(ErrorEvent(status), 0)>>

\* What each failed iteration does after the post: lines 121-133.
FailureTail(status, d) == <<Ev(ErrorEvent(status), 0), Ev("sleep", d)>>

\* What the code after the loop does: line 135.
ExhaustedTail == <<Ev("final_error", 0)>>

\* The function returns v: the decorator stores it, the caller gets it.
Return(v) ==
    /\ fpc' = "returned"
    /\ ret' = v
    /\ cache' = CacheStore(cache, description, v)
    /\ returned' = [returned EXCEPT ![description] = v]

\* A call extract_skills_with_gemini(d): a cache hit returns at once, a miss
\* enters the function body (lines 42-106).  The log holds what the function
\* body does in this call; on a hit the body does not run and the log is empty.
Call(d) ==
    /\ description' = d
    /\ outcome' = "none"
    /\ log' = <<>>
    /\ i' = 0
    /\ IF CacheLookup(cache, d) # Miss
         THEN /\ fpc' = "returned"
              /\ ret' = CacheLookup(cache, d)
              /\ delay' = 0
              /\ returned' = [returned EXCEPT ![d] = CacheLookup(cache, d)]
         ELSE /\ fpc' = "loop"
              /\ ret' = None
              /\ delay' = initial_delay
              /\ UNCHANGED returned
    /\ UNCHANGED <<cache, gave_up>>

\* One iteration whose try block raises an exception the function catches.
AttemptFails ==
    /\ fpc = "loop"
    /\ InRange(i, max_retries)
    /\ \E r \in SkillResponses :
         /\ Exception(r) # "none"
         /\ CaughtByExtract(Exception(r))
         /\ outcome' = r.status
         /\ log' = log \o <<Ev("post", 0)>> \o FailureTail(r.status, delay)
    /\ delay' = NextDelay(delay)
    /\ i' = i + 1
    /\ UNCHANGED <<fpc, description, ret, cache, returned, gave_up>>
    /\ UNCHANGED <<sessionVars, pc, extracted_skills_list, argVars, genCall, pageVars, event, prev_ideas>>

\* An empty response handled as a failure: reported, waited for, retried.
AttemptEmptyRetried ==
    /\ fpc = "loop"
    /\ InRange(i, max_retries)
    /\ \E r \in SkillResponses :
         /\ r.status \in EmptyStatuses
         /\ outcome' = r.status
         /\ log' = log \o <<Ev("post", 0)>> \o FailureTail(r.status, delay)
    /\ delay' = NextDelay(delay)
    /\ i' = i + 1
    /\ UNCHANGED <<fpc, description, ret, cache, returned, gave_up>>
    /\ UNCHANGED <<sessionVars, pc, extracted_skills_list, argVars, genCall, pageVars, event, prev_ideas>>

\* One iteration whose response has no candidates: line 119.
AttemptEmpty ==
    /\ fpc = "loop"
    /\ InRange(i, max_retries)
    /\ \E r \in SkillResponses :
         /\ r.status \in EmptyStatuses
         /\ outcome' = r.status
         /\ Return(Returned(r))
    /\ log' = log \o <<Ev("post", 0)>>
    /\ UNCHANGED <<description, i, delay, gave_up>>
    /\ UNCHANGED <<sessionVars, pc, extracted_skills_list, argVars, genCall, pageVars, event, prev_ideas>>

\* One iteration whose text payload parses: lines 115-117.
AttemptParsed ==
    /\ fpc = "loop"
    /\ InRange(i, max_retries)
    /\ \E r \in SkillResponses :
         /\ r.status = "Parsed"
         /\ outcome' = r.status
         /\ Return(Returned(r))
    /\ log' = log \o <<Ev("post", 0)>>
    /\ UNCHANGED <<description, i, delay, gave_up>>
    /\ UNCHANGED <<sessionVars, pc, extracted_skills_list, argVars, genCall, pageVars, event, prev_ideas>>

\* One iteration whose try block raises an exception no clause catches.
AttemptRaises ==
    /\ fpc = "loop"
    /\ InRange(i, max_retries)
    /\ \E r \in SkillResponses :
         /\ Exception(r) # "none"
         /\ ~CaughtByExtract(Exception(r))
         /\ outcome' = r.status
    /\ log' = log \o <<Ev("post", 0)>>
    /\ fpc' = "raised"
    /\ UNCHANGED <<description, i, delay, ret, cache, returned, gave_up>>
    /\ UNCHANGED <<sessionVars, pc, extracted_skills_list, argVars, genCall, pageVars, event, prev_ideas>>

\* range(max_retries) is used up: lines 135-136.
Exhausted ==
    /\ fpc = "loop"
    /\ ~InRange(i, max_retries)
    /\ log' = log \o ExhaustedTail
    /\ Return(EmptyList)
    /\ gave_up' = gave_up \cup {description}
    /\ UNCHANGED <<description, i, delay, outcome>>
    /\ UNCHANGED <<sessionVars, pc, extracted_skills_list, argVars, genCall, pageVars, event, prev_ideas>>

ExtractStep ==
    \/ AttemptFails
    \/ AttemptEmpty
    \/ AttemptParsed
    \/ AttemptRaises
    \/ Exhausted

(* ----------------------- generate_project_ideas ----------------------- *)
\* The except clause of line 181.
CaughtByGenerate(exc) ==
    exc \in {"HTTPError", "ConnectionError", "Timeout", "RequestException",
             "JSONDecodeError"}

NoGenCall ==
    [called |-> FALSE, arg |-> <<>>, status |-> "none", log |-> <<>>,
     raised |-> FALSE, ret |-> None]

\* generate_project_ideas(skills_list) meeting response r: lines 171-183.
generate_project_ideas(skills_list, r) ==
    [ called |-> TRUE,
      arg |-> skills_list,
      status |-> r.status,
      log |-> IF Exception(r) # "none" /\ CaughtByGenerate(Exception(r))
                THEN <<Ev("post", 0), Ev(ErrorEvent(r.status), 0)>>
                ELSE <<Ev("post", 0)>>,
      raised |-> Exception(r) # "none" /\ ~CaughtByGenerate(Exception(r)),
      ret |-> IF Exception(r) = "none" THEN Returned(r)
              ELSE IF CaughtByGenerate(Exception(r)) THEN EmptyList
              ELSE None ]

(* ---------------------- the page: lines 231-262 ----------------------- *)
Min(a, b) == IF a < b THEN a ELSE b

\* A walk that reads the first element of every list.
WalkableNonEmpty(cell) ==
    /\ cell.kind = "array"
    /\ cell.items # <<>>
    /\ \A k \in DOMAIN cell.items : cell.items[k].shape = "ok"

\* A cell the script can walk through without an exception: format_skills
\* (line 237) and the loop of lines 251-258 read item['skill'] and
\* item['confidence_score'] of every element of a list; the loop raises on
\* a NaN cell (a float) and on the keys of a dict.
Walkable(cell) ==
    /\ cell.kind = "array"
    /\ \A k \in DOMAIN cell.items : cell.items[k].shape = "ok"

\* The items of all cells, in the order lines 251-252 meet them.
RECURSIVE Flatten(_)
Flatten(cells) ==
    IF cells = <<>> THEN <<>>
    ELSE Head(cells).items \o Flatten(Tail(cells))

\* A count that is set for a new skill and never incremented afterwards.
AddScoreCountOnce(scores, item) ==
    IF \E k \in DOMAIN scores : scores[k].skill = item.skill
      THEN [k \in DOMAIN scores |->
              IF scores[k].skill = item.skill
                THEN [scores[k] EXCEPT !.total_score = @ + item.confidence_score]
                ELSE scores[k]]
      ELSE Append(scores, [skill |-> item.skill,
                           total_score |-> 0 + item.confidence_score,
                           count |-> 0 + 1])

\* Lines 253-258 for one item; the dict keeps its keys in insertion order.
AddScore(scores, item) ==
    IF \E k \in DOMAIN scores : scores[k].skill = item.skill
      THEN [k \in DOMAIN scores |->
              IF scores[k].skill = item.skill
                THEN [scores[k] EXCEPT !.total_score = @ + item.confidence_score,
                                       !.count = @ + 1]
                ELSE scores[k]]
      ELSE Append(scores, [skill |-> item.skill,
                           total_score |-> 0 + item.confidence_score,
                           count |-> 0 + 1])

\* Lines 250-258.
RECURSIVE SkillScores(_, _)
SkillScores(items, scores) ==
    IF items = <<>> THEN scores
    ELSE SkillScores(Tail(items), AddScore(scores, Head(items)))

\* Line 261: total_score / count, kept as the fraction num/den it denotes
\* (scores are integers and counts small, so the float order is this order).
AvgScores(scores) ==
    [k \in DOMAIN scores |->
        [skill |-> scores[k].skill, num |-> scores[k].total_score, den |-> scores[k].count]]

\* a's average is strictly greater than b's.
Greater(a, b) == a.num * b.den > b.num * a.den

\* A sort that puts an entry before the entries of equal key.
RECURSIVE InsertDescUnstable(_, _)
InsertDescUnstable(sorted, e) ==
    IF sorted = <<>> THEN <<e>>
    ELSE IF ~Greater(Head(sorted), e) THEN <<e>> \o sorted
    ELSE <<Head(sorted)>> \o InsertDescUnstable(Tail(sorted), e)

\* sorted(..., reverse=True) is stable: an entry goes after every entry whose
\* key is greater or equal.
RECURSIVE InsertDesc(_, _)
InsertDesc(sorted, e) ==
    IF sorted = <<>> THEN <<e>>
    ELSE IF Greater(e, Head(sorted)) THEN <<e>> \o sorted
    ELSE <<Head(sorted)>> \o InsertDesc(Tail(sorted), e)

RECURSIVE SortedDesc(_, _)
SortedDesc(entries, sorted) ==
    IF entries = <<>> THEN sorted
    ELSE SortedDesc(Tail(entries), InsertDesc(sorted, Head(entries)))

\* Line 262: the names of the first three.
TopSkills(avg) ==
    LET s == SortedDesc(avg, <<>>)
    IN  [k \in 1..Min(TopLimit, Len(s)) |-> s[k].skill]

Cells(jd) == [k \in DOMAIN jd |-> jd[k].Extracted]

\* A page whose skill_scores is not reset by line 250: the fold goes on from
\* the totals and counts of the page before.
PageCarried(jd, hc) ==
    IF ~hc \/ jd = <<>>
      THEN [status |-> "skipped", avg |-> <<>>, top |-> <<>>]
    ELSE IF \E k \in DOMAIN jd : ~Walkable(jd[k].Extracted)
      THEN [status |-> "crash", avg |-> <<>>, top |-> <<>>]
    ELSE LET carried == [k \in DOMAIN avg_scores |->
                           [skill |-> avg_scores[k].skill,
                            total_score |-> avg_scores[k].num,
                            count |-> avg_scores[k].den]]
             avg == AvgScores(SkillScores(Flatten(Cells(jd)), carried))
         IN  [status |-> "ok", avg |-> avg, top |-> TopSkills(avg)]

\* Lines 231-262 of one script run over the session's rows.
Page(jd, hc) ==
    IF ~hc \/ jd = <<>>
      THEN [status |-> "skipped", avg |-> <<>>, top |-> <<>>]
    ELSE IF \E k \in DOMAIN jd : ~Walkable(jd[k].Extracted)
      THEN [status |-> "crash", avg |-> <<>>, top |-> <<>>]
    ELSE LET avg == AvgScores(SkillScores(Flatten(Cells(jd)), <<>>))
         IN  [status |-> "ok", avg |-> avg, top |-> TopSkills(avg)]

ShowPage(jd, hc) ==
    /\ render' = Page(jd, hc).status
    /\ avg_scores' = Page(jd, hc).avg
    /\ top_skills' = Page(jd, hc).top

\* The script died before line 231.
NoPage ==
    /\ render' = "aborted"
    /\ avg_scores' = <<>>
    /\ top_skills' = <<>>

(* ----------------------------- the script ----------------------------- *)
Row(t, c, d, x) == [Title |-> t, Company |-> c, Description |-> d, Extracted |-> x]

\* A concat that puts the new row first.
ConcatFront(jd, hc, t, c, d) == <<Row(t, c, d, IF hc THEN NaN ELSE None)>> \o jd

\* pd.concat of line 209: the new row has no value in a column it lacks.
Concat(jd, hc, t, c, d) == Append(jd, Row(t, c, d, IF hc THEN NaN ELSE None))

\* Line 226: the column is assigned from the round's list.
AssignColumn(jd, cells) == [k \in DOMAIN jd |-> [jd[k] EXCEPT !.Extracted = cells[k]]]

\* A handler that resets the ideas before it looks at the fields.
SubmitFormResetsAlways ==
    /\ pc = "idle"
    /\ \E t \in Titles, c \in Companies, d \in Descriptions :
         IF t # "" /\ c # "" /\ d # ""
           THEN /\ Len(job_data) < MaxJobs
                /\ job_data' = Concat(job_data, hasColumn, t, c, d)
                /\ project_ideas' = None
                /\ event' = "added"
                /\ ShowPage(job_data', hasColumn)
           ELSE /\ UNCHANGED job_data
                /\ project_ideas' = None
                /\ event' = "rejected"
                /\ ShowPage(job_data, hasColumn)
    /\ genCall' = NoGenCall
    /\ prev_ideas' = project_ideas
    /\ UNCHANGED <<hasColumn, cache, pc, extracted_skills_list, callVars, argVars, returned, gave_up>>

\* "Add Job to List" is pressed: lines 200-211, then the rest of the script.
SubmitForm ==
    /\ pc = "idle"
    /\ \E t \in Titles, c \in Companies, d \in Descriptions :
         IF t # "" /\ c # "" /\ d # ""
           THEN /\ Len(job_data) < MaxJobs
                /\ job_data' = Concat(job_data, hasColumn, t, c, d)
                /\ project_ideas' = None
                /\ event' = "added"
                /\ ShowPage(job_data', hasColumn)
           ELSE /\ UNCHANGED <<job_data, project_ideas>>
                /\ event' = "rejected"
                /\ ShowPage(job_data, hasColumn)
    /\ genCall' = NoGenCall
    /\ prev_ideas' = project_ideas
    /\ UNCHANGED <<hasColumn, cache, pc, extracted_skills_list, callVars, argVars, returned, gave_up>>

\* "Extract Skills" is pressed: lines 218-220.
ClickExtract ==
    /\ pc = "idle"
    /\ job_data # <<>>
    /\ pc' = "round"
    /\ extracted_skills_list' = <<>>
    /\ event' = "extract"
    /\ genCall' = NoGenCall
    /\ prev_ideas' = project_ideas
    /\ UNCHANGED <<sessionVars, cache, callVars, argVars, returned, gave_up, pageVars>>

\* Line 223 for the next row.
RoundCall ==
    /\ pc = "round"
    /\ fpc = "none"
    /\ Len(extracted_skills_list) < Len(job_data)
    /\ Call(job_data[Len(extracted_skills_list) + 1].Description)
    /\ UNCHANGED <<sessionVars, pc, extracted_skills_list, argVars, genCall, pageVars, event, prev_ideas>>

\* A round that puts each result in front of the results it has.
RoundAppendFront ==
    /\ pc = "round"
    /\ fpc = "returned"
    /\ extracted_skills_list' = <<ret>> \o extracted_skills_list
    /\ fpc' = "none"
    /\ log' = <<>>
    /\ outcome' = "none"
    /\ ret' = None
    /\ i' = 0
    /\ delay' = 0
    /\ UNCHANGED <<sessionVars, cache, pc, description, argVars, returned, gave_up, genCall, pageVars, event, prev_ideas>>

\* Line 224.
RoundAppend ==
    /\ pc = "round"
    /\ fpc = "returned"
    /\ extracted_skills_list' = Append(extracted_skills_list, ret)
    /\ fpc' = "none"
    /\ log' = <<>>
    /\ outcome' = "none"
    /\ ret' = None
    /\ i' = 0
    /\ delay' = 0
    /\ UNCHANGED <<sessionVars, cache, pc, description, argVars, returned, gave_up, genCall, pageVars, event, prev_ideas>>

\* The call of line 223 raised: the script run ends there.
RoundAbort ==
    /\ pc = "round"
    /\ fpc = "raised"
    /\ pc' = "idle"
    /\ extracted_skills_list' = <<>>
    /\ fpc' = "none"
    /\ log' = <<>>
    /\ outcome' = "none"
    /\ i' = 0
    /\ delay' = 0
    /\ NoPage
    /\ event' = "extract_aborted"
    /\ UNCHANGED <<sessionVars, cache, description, ret, argVars, returned, gave_up, genCall, prev_ideas>>

\* A round that forgets line 229.
RoundFinishKeepsIdeas ==
    /\ pc = "round"
    /\ fpc = "none"
    /\ Len(extracted_skills_list) = Len(job_data)
    /\ job_data' = AssignColumn(job_data, extracted_skills_list)
    /\ hasColumn' = TRUE
    /\ pc' = "idle"
    /\ extracted_skills_list' = <<>>
    /\ ShowPage(job_data', TRUE)
    /\ event' = "extracted"
    /\ UNCHANGED <<project_ideas, cache, callVars, argVars, returned, gave_up, genCall, prev_ideas>>

\* Lines 226-229, then the rest of the script.
RoundFinish ==
    /\ pc = "round"
    /\ fpc = "none"
    /\ Len(extracted_skills_list) = Len(job_data)
    /\ job_data' = AssignColumn(job_data, extracted_skills_list)
    /\ hasColumn' = TRUE
    /\ project_ideas' = None
    /\ pc' = "idle"
    /\ extracted_skills_list' = <<>>
    /\ ShowPage(job_data', TRUE)
    /\ event' = "extracted"
    /\ UNCHANGED <<cache, callVars, argVars, returned, gave_up, genCall, prev_ideas>>

\* "Generate Project Ideas" is pressed on a page that shows it: lines 264-269.
ClickGenerate ==
    /\ pc = "idle"
    /\ render = "ok"
    /\ LET page == Page(job_data, hasColumn)
       IN  /\ ShowPage(job_data, hasColumn)
           /\ IF page.top = <<>>
                THEN /\ genCall' = NoGenCall
                     /\ UNCHANGED project_ideas
                ELSE \E r \in IdeaResponses :
                       /\ genCall' = generate_project_ideas(page.top, r)
                       /\ project_ideas' = IF genCall'.raised THEN project_ideas
                                           ELSE genCall'.ret
    /\ event' = "generate"
    /\ prev_ideas' = project_ideas
    /\ UNCHANGED <<job_data, hasColumn, cache, pc, extracted_skills_list, callVars, argVars, returned, gave_up>>

(* ------------------------------ Spec ---------------------------------- *)
Init ==
    /\ job_data = <<>>
    /\ hasColumn = FALSE
    /\ project_ideas = None
    /\ cache = [d \in Descriptions |-> Miss]
    /\ pc = "idle"
    /\ extracted_skills_list = <<>>
    /\ fpc = "none"
    /\ description = ""
    /\ max_retries = DefaultMaxRetries
    /\ initial_delay = DefaultInitialDelay
    /\ i = 0
    /\ delay = 0
    /\ log = <<>>
    /\ outcome = "none"
    /\ ret = None
    /\ returned = [d \in Descriptions |-> Miss]
    /\ genCall = NoGenCall
    /\ render = "skipped"
    /\ avg_scores = <<>>
    /\ top_skills = <<>>
    /\ event = "none"
    /\ prev_ideas = None
    /\ gave_up = {}

Next ==
    \/ SubmitForm
    \/ ClickExtract
    \/ RoundCall
    \/ ExtractStep
    \/ RoundAppend
    \/ RoundAbort
    \/ RoundFinish
    \/ ClickGenerate

Spec == Init /\ [][Next]_vars

(* ------------------------------ SpecFn -------------------------------- *)
SkillLists == { <<>>, <<"Python">>, <<"Python", "SQL", "R">> }

\* extract_skills_with_gemini(d, max_retries, initial_delay) is called.
DirectCall ==
    /\ pc = "direct"
    /\ fpc \in {"none", "returned", "raised"}
    /\ \E d \in Descriptions : Call(d)
    /\ genCall' = NoGenCall
    /\ UNCHANGED <<sessionVars, pc, extracted_skills_list, argVars, pageVars, event, prev_ideas>>

\* generate_project_ideas(skills_list) is called; it reads no state.
DirectGenerate ==
    /\ pc = "direct"
    /\ fpc = "none"
    /\ \E skills_list \in SkillLists, r \in IdeaResponses :
         genCall' = generate_project_ideas(skills_list, r)
    /\ UNCHANGED <<sessionVars, cache, pc, extracted_skills_list, callVars, argVars,
                   returned, gave_up, pageVars, event, prev_ideas>>

InitFn ==
    /\ job_data = <<>>
    /\ hasColumn = FALSE
    /\ project_ideas = None
    /\ cache = [d \in Descriptions |-> Miss]
    /\ pc = "direct"
    /\ extracted_skills_list = <<>>
    /\ fpc = "none"
    /\ description = ""
    /\ max_retries \in (0..MaxRetriesArg) \cup {DefaultMaxRetries}
    /\ initial_delay \in 1..MaxInitialDelay
    /\ i = 0
    /\ delay = 0
    /\ log = <<>>
    /\ outcome = "none"
    /\ ret = None
    /\ returned = [d \in Descriptions |-> Miss]
    /\ genCall = NoGenCall
    /\ render = "skipped"
    /\ avg_scores = <<>>
    /\ top_skills = <<>>
    /\ event = "none"
    /\ prev_ideas = None
    /\ gave_up = {}

NextFn ==
    \/ DirectCall
    \/ ExtractStep
    \/ DirectGenerate

SpecFn == InitFn /\ [][NextFn]_vars

(* ------------------------------ SpecAgg ------------------------------- *)
AggItems ==
    { Item("Python", 90), Item("Python", 70), Item("python", 90),
      Item("SQL", 80), Item("R", 80) }

\* Cut point k of a column of p cells over n items: cell k holds the items
\* after cut k-1 up to cut k.
CutAt(cut, k, p, n) == IF k = 0 THEN 0 ELSE IF k = p THEN n ELSE cut[k]

\* The column that cuts the items flat into p cells.
ColumnOf(flat, cut, p) ==
    [k \in 1..p |->
        Row("Data Scientist", "Acme", "d1",
            JsonArray(SubSeq(flat, CutAt(cut, k - 1, p, Len(flat)) + 1,
                                   CutAt(cut, k, p, Len(flat)))))]

\* A script run in which no button is pressed.
Rerun ==
    /\ pc = "agg"
    /\ ShowPage(job_data, hasColumn)
    /\ event' = "rerun"
    /\ UNCHANGED <<sessionVars, cache, pc, extracted_skills_list, callVars, argVars,
                   returned, gave_up, genCall, prev_ideas>>

\* Any column of at most MaxPostings cells (lists of well-formed items)
\* that hold at most MaxItems items together.
InitAgg ==
    /\ \E n \in 0..MaxItems, p \in 1..MaxPostings :
         \E flat \in [1..n -> AggItems], cut \in [1..(p - 1) -> 0..n] :
            /\ \A k \in 1..p : CutAt(cut, k - 1, p, n) <= CutAt(cut, k, p, n)
            /\ job_data = ColumnOf(flat, cut, p)
    /\ hasColumn = TRUE
    /\ project_ideas = None
    /\ cache = [d \in Descriptions |-> Miss]
    /\ pc = "agg"
    /\ extracted_skills_list = <<>>
    /\ fpc = "none"
    /\ description = ""
    /\ max_retries = DefaultMaxRetries
    /\ initial_delay = DefaultInitialDelay
    /\ i = 0
    /\ delay = 0
    /\ log = <<>>
    /\ outcome = "none"
    /\ ret = None
    /\ returned = [d \in Descriptions |-> Miss]
    /\ genCall = NoGenCall
    /\ render = "none"
    /\ avg_scores = <<>>
    /\ top_skills = <<>>
    /\ event = "none"
    /\ prev_ideas = None
    /\ gave_up = {}

NextAgg == Rerun

SpecAgg == InitAgg /\ [][NextAgg]_vars

(* ------------------------------ claims -------------------------------- *)
RECURSIVE Pow2(_)
Pow2(n) == IF n = 0 THEN 1 ELSE 2 * Pow2(n - 1)

\* The function body ran (the call was no cache hit) and has returned.
BodyReturned == fpc = "returned" /\ log # <<>>

\* A value that matches the schema of lines 84-97: a list of objects that
\* have both keys.
MatchesSchema(v) ==
    /\ v.kind = "array"
    /\ \A k \in DOMAIN v.items : v.items[k].shape = "ok"

\* C1: whatever the remote answers, extract raises nothing and returns
\* either the empty sequence or SkillScore objects whose confidence_score
\* is in [0,100].
C1_ExtractNeverThrows ==
    /\ fpc # "raised"
    /\ fpc = "returned" =>
         /\ MatchesSchema(ret)
         /\ \A k \in DOMAIN ret.items : ret.items[k].confidence_score \in 0..100

\* The call has returned, it made at least one attempt and every attempt
\* failed with a transport error.
AllTransportFailures ==
    /\ BodyReturned
    /\ Posts(log) >= 1
    /\ Count(log, "transport_error") = Posts(log)

\* C2 as stated: when every attempt fails with a transport error, extract
\* posts max_retries times, returns the empty sequence and reports exactly
\* max_retries errors over the whole call.
C2_ExactlyNErrors ==
    AllTransportFailures =>
        /\ Posts(log) = max_retries
        /\ ret = EmptyList
        /\ Errors(log) = max_retries

\* C2 amended: when every attempt fails with a transport error, extract
\* posts max_retries times, returns the empty sequence and reports one error
\* per attempt plus the final failure: max_retries + 1 errors.
C2_NPlusOneErrors ==
    AllTransportFailures =>
        /\ Posts(log) = max_retries
        /\ ret = EmptyList
        /\ Count(log, "transport_error") = max_retries
        /\ Count(log, "final_error") = 1
        /\ Errors(log) = max_retries + 1

C2_Witness ==
    /\ AllTransportFailures
    /\ max_retries = 3
    /\ Posts(log) = 3
    /\ Errors(log) = 4

PostsBefore(l, j) == Cardinality({k \in 1..(j - 1) : l[k].ev = "post"})

\* C3: the event right before attempt k >= 2 is a wait of exactly
\* initial_delay * 2^(k-2), and a call never posts more than max_retries
\* times.
C3_BackoffDelays ==
    /\ Posts(log) <= max_retries
    /\ \A j \in DOMAIN log :
         (log[j].ev = "post" /\ PostsBefore(log, j) >= 1) =>
            /\ log[j - 1].ev = "sleep"
            /\ log[j - 1].d = initial_delay * Pow2(PostsBefore(log, j) - 1)

C3_Witness ==
    /\ initial_delay = 2
    /\ Posts(log) = 3
    /\ Waits(log) = <<2, 4>>

\* C4: a step of the loop that meets a response without candidates returns
\* the empty sequence in that very step, with the post as the call's last
\* event: no error, no wait, no change of delay, no further attempt.
C4_EmptyReturnsAtOnce ==
    [][(fpc = "loop" /\ outcome' \in EmptyStatuses) =>
          /\ fpc' = "returned"
          /\ ret' = EmptyList
          /\ log' = Append(log, Ev("post", 0))
          /\ delay' = delay
          /\ i' = i]_vars

C4_Witness ==
    /\ outcome \in EmptyStatuses
    /\ fpc = "returned"
    /\ ret = EmptyList
    /\ Posts(log) = 2
    /\ AttemptErrors(log) = 1
    /\ max_retries = 3

\* A step in which a call of extract returns to its caller.
CallReturns ==
    /\ fpc' = "returned"
    /\ \/ fpc = "loop"
       \/ callVars' # callVars

\* C5: once extract has returned for a description, every later call for
\* that description returns the same value and posts nothing.
C5_Memoized ==
    [][(CallReturns /\ returned[description'] # Miss) =>
          /\ ret' = returned[description']
          /\ Posts(log') = 0]_vars

C5_Witness ==
    /\ pc = "round"
    /\ fpc = "returned"
    /\ log = <<>>
    /\ ret = JsonArray(<<Item("Python", 90), Item("SQL", 80)>>)
    /\ returned[description] = ret

\* C6: a parsed text payload that does not match the schema is never
\* returned to the caller.
C6_PayloadValidated ==
    (fpc = "returned" /\ outcome = "Parsed") => MatchesSchema(ret)

\* C7: generate_ideas posts exactly once, never waits, never raises, and on
\* a transport error, a parse failure or a response without the expected
\* shape it reports one error and returns the empty sequence.
C7_GenerateNeverThrows ==
    genCall.called =>
        /\ Posts(genCall.log) = 1
        /\ Count(genCall.log, "sleep") = 0
        /\ ~genCall.raised
        /\ genCall.status \in FailureStatuses \cup BrokenStatuses =>
             /\ AttemptErrors(genCall.log) = 1
             /\ genCall.ret = EmptyList

\* C8: right after a posting was added and right after an extraction round
\* (finished or ended by an exception) no project idea is held.
C8_IdeasCleared ==
    (pc = "idle" /\ event \in {"added", "extracted", "extract_aborted"}) =>
        project_ideas = None

C8_Witness ==
    /\ pc = "idle"
    /\ event = "extracted"
    /\ prev_ideas.kind = "array"
    /\ prev_ideas.items # <<>>
    /\ project_ideas = None

(* The aggregate, stated over the occurrences of the column. *)
\* The places <<row, index>> of the column where skill s occurs, by exact
\* string equality.
Occ(s) ==
    {p \in UNION {{<<r, k>> : k \in DOMAIN job_data[r].Extracted.items} : r \in DOMAIN job_data} :
        job_data[p[1]].Extracted.items[p[2]].skill = s}

SkillsSeen ==
    UNION {{job_data[r].Extracted.items[k].skill : k \in DOMAIN job_data[r].Extracted.items}
              : r \in DOMAIN job_data}

RECURSIVE SumScores(_)
SumScores(places) ==
    IF places = {} THEN 0
    ELSE LET p == CHOOSE q \in places : TRUE
         IN  job_data[p[1]].Extracted.items[p[2]].confidence_score + SumScores(places \ {p})

Before(p, q) == p[1] < q[1] \/ (p[1] = q[1] /\ p[2] < q[2])

FirstPlace(s) == CHOOSE p \in Occ(s) : \A q \in Occ(s) : p = q \/ Before(p, q)

\* s ranks before t: a greater mean, or the same mean and seen first.
RanksBefore(s, t) ==
    LET ms == SumScores(Occ(s)) * Cardinality(Occ(t))
        mt == SumScores(Occ(t)) * Cardinality(Occ(s))
    IN  ms > mt \/ (ms = mt /\ Before(FirstPlace(s), FirstPlace(t)))

\* C9: the averages hold one group per distinct skill string of the column
\* (case-sensitive), and each group's average is the sum of all its
\* occurrences divided by the number of its occurrences.
C9_ExactMeanPerSkill ==
    render = "ok" =>
        /\ {avg_scores[k].skill : k \in DOMAIN avg_scores} = SkillsSeen
        /\ Len(avg_scores) = Cardinality(SkillsSeen)
        /\ \A k \in DOMAIN avg_scores :
             /\ avg_scores[k].den > 0
             /\ avg_scores[k].num * Cardinality(Occ(avg_scores[k].skill))
                  = SumScores(Occ(avg_scores[k].skill)) * avg_scores[k].den

\* Python 90 and 70 in one posting, Python 90 in the other: 250/3, with
\* "python" a group of its own.
C9_Witness ==
    /\ render = "ok"
    /\ Cells(job_data) = << JsonArray(<<Item("Python", 90), Item("Python", 70), Item("python", 90)>>),
                            JsonArray(<<Item("Python", 90)>>) >>
    /\ Len(avg_scores) = 2
    /\ avg_scores[1].skill = "Python"
    /\ avg_scores[1].num * 3 = 250 * avg_scores[1].den

\* C10: top_skills holds skill names only, the first three (or all, if
\* fewer) of the skills ranked by descending mean with ties in first-seen
\* order; every skill left out ranks after every skill returned.
C10_TopSkillsRanked ==
    render = "ok" =>
        /\ Len(top_skills) = Min(TopLimit, Cardinality(SkillsSeen))
        /\ \A a \in DOMAIN top_skills : top_skills[a] \in SkillsSeen
        /\ \A a, b \in DOMAIN top_skills :
             a < b => RanksBefore(top_skills[a], top_skills[b])
        /\ \A s \in SkillsSeen \ {top_skills[a] : a \in DOMAIN top_skills} :
             \A a \in DOMAIN top_skills : RanksBefore(top_skills[a], s)

\* Four skills, two ties: Python and python at 90, SQL and R at 80.
C10_Witness ==
    /\ render = "ok"
    /\ Cells(job_data) = << JsonArray(<<Item("python", 90), Item("SQL", 80)>>),
                            JsonArray(<<Item("R", 80), Item("Python", 90)>>) >>
    /\ top_skills = <<"python", "Python", "SQL">>

\* C11: the averages and the top skills are a function of the rows' current
\* extraction results alone: a script run that finds the rows and the column
\* as the run before left them shows the same averages and the same top
\* skills, whatever happened in between.
C11_AggregateRecomputed ==
    [][ ( /\ render = "ok"
          /\ render' = "ok"
          /\ job_data' = job_data
          /\ hasColumn' = hasColumn )
        => (avg_scores' = avg_scores /\ top_skills' = top_skills) ]_vars

\* The page was computed again by a rejected submission, over rows that had
\* been aggregated before.
C11_Witness ==
    /\ event = "rejected"
    /\ render = "ok"
    /\ Len(job_data) = 2
    /\ Len(avg_scores) = 2
    /\ top_skills # <<>>

\* Lines 250-262 over a column of cells, with the slice of line 262 cut at
\* limit instead of 3.
Aggregate(cells, limit) ==
    LET s == SortedDesc(AvgScores(SkillScores(Flatten(cells), <<>>)), <<>>)
    IN  [k \in 1..Min(limit, Len(s)) |-> s[k].skill]

\* C12: aggregating nothing gives nothing and no error.  While no result
\* exists the page of the last script run did not fail and names no skill;
\* once every posting has the empty result the page is computed without an
\* exception, its averages and its top skills are empty, and so is the
\* aggregate of the column for every limit from 0 on.
C12_EmptyAggregate ==
    /\ (pc = "idle" /\ (~hasColumn \/ job_data = <<>>))
         => /\ render # "crash"
            /\ avg_scores = <<>>
            /\ top_skills = <<>>
            /\ \A n \in 0..(TopLimit + 1) : Aggregate(<<>>, n) = <<>>
    /\ ( /\ pc = "idle"
         /\ hasColumn
         /\ job_data # <<>>
         /\ \A k \in DOMAIN job_data : job_data[k].Extracted = EmptyList )
         => /\ render = "ok"
            /\ avg_scores = <<>>
            /\ top_skills = <<>>
            /\ \A n \in 0..(TopLimit + 1) : Aggregate(Cells(job_data), n) = <<>>

\* A round gave two postings the empty result and the page was shown.
C12_Witness ==
    /\ event = "extracted"
    /\ hasColumn
    /\ Len(job_data) = 2
    /\ \A k \in DOMAIN job_data : job_data[k].Extracted = EmptyList
    /\ render = "ok"
    /\ top_skills = <<>>

AttemptErrorEvents == {"transport_error", "parse_error"}

\* A step of the loop that posts.
Attempts == fpc = "loop" /\ Posts(log') = Posts(log) + 1

\* The order of a call's events: an attempt that is not the call's last
\* event is followed by one error report and then one wait, and what comes
\* after the wait of attempt k is attempt k+1 when k < max_retries and the
\* final report otherwise.
AttemptsInOrder ==
    \A j \in DOMAIN log :
        (log[j].ev = "post" /\ j < Len(log)) =>
            /\ j + 2 <= Len(log)
            /\ log[j + 1].ev \in AttemptErrorEvents
            /\ log[j + 2].ev = "sleep"
            /\ (j + 3 <= Len(log)) =>
                  log[j + 3].ev = IF PostsBefore(log, j) + 1 < max_retries
                                    THEN "post" ELSE "final_error"

\* C13: an attempt that fails in one of the four ways adds, in this order,
\* the post, one error report and one wait of the current delay, doubles the
\* delay and leaves the loop at the next index, and the next attempt follows
\* when the index is below max_retries; an attempt whose payload parses ends
\* the call with that payload, the post being the last event of the call.
C13_FailedAttemptRetried ==
    /\ []AttemptsInOrder
    /\ []((fpc = "returned" /\ outcome = "Parsed")
            => (log[Len(log)].ev = "post" /\ ret \in SkillPayloads))
    /\ [][ /\ (Attempts /\ outcome' \in FailureStatuses) =>
                /\ log' = log \o <<Ev("post", 0),
                                   Ev(log'[Len(log) + 2].ev, 0),
                                   Ev("sleep", delay)>>
                /\ log'[Len(log) + 2].ev \in AttemptErrorEvents
                /\ delay' = 2 * delay
                /\ i' = i + 1
                /\ fpc' = "loop"
           /\ (Attempts /\ outcome' = "Parsed") =>
                /\ log' = Append(log, Ev("post", 0))
                /\ fpc' = "returned"
                /\ ret' \in SkillPayloads
                /\ delay' = delay ]_vars

\* The third attempt parsed, after a parse failure and a transport failure.
C13_Witness ==
    /\ fpc = "returned"
    /\ outcome = "Parsed"
    /\ Posts(log) = 3
    /\ Count(log, "parse_error") = 1
    /\ Count(log, "transport_error") = 1
    /\ Waits(log) = <<1, 2>>

RECURSIVE SumWaits(_)
SumWaits(w) == IF w = <<>> THEN 0 ELSE Head(w) + SumWaits(Tail(w))

\* The function body ran until range(max_retries) was used up.
GaveUp ==
    /\ fpc = "returned"
    /\ log # <<>>
    /\ log[Len(log)].ev = "final_error"

\* C14: a call that gives up has made max_retries attempts and has waited
\* initial_delay * (2^max_retries - 1) in total; the last wait, of
\* initial_delay * 2^(max_retries - 1), comes after the last failed attempt
\* and right before the final report.  With max_retries = 5 and
\* initial_delay = 1 the waits are 1, 2, 4, 8, 16 and their sum is 31.
C14_TotalWaitOnExhaustion ==
    GaveUp =>
        /\ Posts(log) = max_retries
        /\ Len(Waits(log)) = max_retries
        /\ SumWaits(Waits(log)) = initial_delay * (Pow2(max_retries) - 1)
        /\ max_retries >= 1 =>
              /\ log[Len(log) - 1] = Ev("sleep", initial_delay * Pow2(max_retries - 1))
              /\ log[Len(log) - 2].ev \in AttemptErrorEvents
              /\ log[Len(log) - 3].ev = "post"
        /\ (max_retries = DefaultMaxRetries /\ initial_delay = DefaultInitialDelay) =>
              /\ Waits(log) = <<1, 2, 4, 8, 16>>
              /\ SumWaits(Waits(log)) = 31

\* The defaults, every attempt failed: 31 seconds of waits.
C14_Witness ==
    /\ GaveUp
    /\ max_retries = DefaultMaxRetries
    /\ initial_delay = DefaultInitialDelay
    /\ Posts(log) = 5
    /\ SumWaits(Waits(log)) = 31

\* The rows that have an extraction result.
WithResult(jd) == SelectSeq(jd, LAMBDA row : row.Extracted # NaN)

\* C15: a posting added after the last round has no result, contributes
\* nothing to the page and does not make it fail: when a posting has just
\* been added to rows whose results the loop of lines 251-258 can walk, the
\* page is computed and it is the page of the rows that have a result.
C15_UnextractedPostingIgnored ==
    ( /\ pc = "idle"
      /\ event = "added"
      /\ hasColumn
      /\ \A k \in DOMAIN job_data :
            job_data[k].Extracted # NaN => Walkable(job_data[k].Extracted) )
    => /\ render = "ok"
       /\ avg_scores = Page(WithResult(job_data), TRUE).avg
       /\ top_skills = Page(WithResult(job_data), TRUE).top

\* While a round runs, its list holds the results of the first rows in the
\* rows' order, and the one call that may be running is the call for the
\* next row.
RoundInOrder ==
    pc = "round" =>
        /\ Len(extracted_skills_list) <= Len(job_data)
        /\ \A k \in DOMAIN extracted_skills_list :
              /\ extracted_skills_list[k] = returned[job_data[k].Description]
              /\ job_data[k].Description \in gave_up =>
                    extracted_skills_list[k] = EmptyList
        /\ fpc # "none" =>
              /\ Len(extracted_skills_list) < Len(job_data)
              /\ description = job_data[Len(extracted_skills_list) + 1].Description

\* When a round has completed, every row has the result of its description.
RoundComplete ==
    (pc = "idle" /\ event = "extracted") =>
        \A k \in DOMAIN job_data :
            /\ job_data[k].Extracted = returned[job_data[k].Description]
            /\ job_data[k].Extracted \notin {NaN, None}

\* C16: a round takes the postings one at a time in insertion order, the
\* k-th result is what extract returned for the k-th description, a call
\* that returns (with the empty result of a give-up too) is followed by the
\* round's going on with that result appended, and a completed round leaves
\* every posting with exactly its result.
C16_RoundSequential ==
    /\ []RoundInOrder
    /\ []RoundComplete
    /\ [][ (pc = "round" /\ fpc = "returned") =>
              /\ pc' = "round"
              /\ extracted_skills_list' = Append(extracted_skills_list, ret)
              /\ job_data' = job_data ]_vars

\* A completed round of two postings: extract gave up on the first, and the
\* second has a result with a skill.
C16_Witness ==
    /\ pc = "idle"
    /\ event = "extracted"
    /\ Len(job_data) = 2
    /\ job_data[1].Description \in gave_up
    /\ job_data[1].Extracted = EmptyList
    /\ job_data[2].Extracted = JsonArray(<<Item("Python", 70)>>)

\* C17: no step removes a posting, moves one, or changes the title, the
\* company or the description of one; a step that adds a posting adds
\* exactly one, after all the others.
C17_JobListAppendOnly ==
    [][ /\ Len(job_data') \in {Len(job_data), Len(job_data) + 1}
        /\ \A k \in DOMAIN job_data :
              /\ job_data'[k].Title = job_data[k].Title
              /\ job_data'[k].Company = job_data[k].Company
              /\ job_data'[k].Description = job_data[k].Description ]_vars

\* A second posting was added after a round over the first.
C17_Witness ==
    /\ event = "added"
    /\ hasColumn
    /\ Len(job_data) = 2
    /\ job_data[1].Description = "d2"
    /\ job_data[1].Extracted # NaN
    /\ job_data[2].Description = "d1"
    /\ job_data[2].Extracted = NaN

\* C18: the empty result of a call that gave up is stored like any other:
\* the cache holds it for the description from then on, and every later
\* call for that description returns the empty sequence without entering
\* the function body, so without a post, an error report or a wait.
C18_GiveUpMemoized ==
    /\ [](\A d \in gave_up : CacheLookup(cache, d) = EmptyList)
    /\ [][(CallReturns /\ description' \in gave_up) =>
             /\ ret' = EmptyList
             /\ log' = <<>>
             /\ cache' = cache]_vars

\* In a round after the one in which extract gave up on a description, the
\* call for that description has returned the empty result from the cache.
C18_Witness ==
    /\ pc = "round"
    /\ hasColumn
    /\ fpc = "returned"
    /\ description \in gave_up
    /\ log = <<>>
    /\ ret = EmptyList

\* C19: a submission with an empty title, company or description changes
\* nothing of the session: the rows with their results, the column and the
\* stored ideas are what they were, and nothing is cached; and a row that a
\* submission adds has none of the three fields empty.
C19_RejectedSubmitNoEffect ==
    [][ /\ (pc = "idle" /\ event' = "rejected") =>
              /\ job_data' = job_data
              /\ hasColumn' = hasColumn
              /\ project_ideas' = project_ideas
              /\ cache' = cache
        /\ (pc = "idle" /\ Len(job_data') = Len(job_data) + 1) =>
              /\ job_data'[Len(job_data')].Title # ""
              /\ job_data'[Len(job_data')].Company # ""
              /\ job_data'[Len(job_data')].Description # "" ]_vars

\* A submission was rejected while ideas were stored for two postings with
\* results: the ideas are still there.
C19_Witness ==
    /\ event = "rejected"
    /\ hasColumn
    /\ Len(job_data) = 2
    /\ project_ideas \in IdeaPayloads
    /\ project_ideas # EmptyList
    /\ prev_ideas = project_ideas

\* C20: after "Generate Project Ideas" the skills asked about are the top
\* skills of the page, at most three in ranked order; with no top skill the
\* function is not called and the stored ideas are the ones stored before;
\* otherwise the function is called once, with the top skills, posts once,
\* and the stored ideas are what it returned.
C20_IdeasFromTopSkills ==
    (pc = "idle" /\ event = "generate") =>
        /\ top_skills = TopSkills(avg_scores)
        /\ Len(top_skills) <= TopLimit
        /\ IF top_skills = <<>>
             THEN /\ ~genCall.called
                  /\ project_ideas = prev_ideas
             ELSE /\ genCall.called
                  /\ genCall.arg = top_skills
                  /\ Posts(genCall.log) = 1
                  /\ project_ideas = genCall.ret

====
